---- MODULE Spec2Model ----
(***************************************************************************)
(* Client-side authorization of the WMS dashboard: the PermissionManager   *)
(* singleton (utils/permissions.js), the PermissionGate render guard       *)
(* (components/PermissionGate.jsx), the navigation table (Layout.tsx) and  *)
(* the session life cycle and router of App.tsx over api/index.ts.         *)
(*                                                                         *)
(* Two specifications share the variables:                                 *)
(*   SpecEval  the exported evaluator and the Gate driven through their    *)
(*             public operations (initialize, clear, the queries);         *)
(*   Spec      the application as App.tsx wires it: page load, start-up,   *)
(*             login, logout, API authentication failures, routing.        *)
(***************************************************************************)
EXTENDS Integers, Sequences, FiniteSets, TLC

(* ------------------------------------------------------------------ *)
(* Values                                                              *)
(* ------------------------------------------------------------------ *)

\* JavaScript null / undefined and a present value.
Null == [tag |-> "null"]
Some(v) == [tag |-> "some", val |-> v]

\* A supplied-or-not option of the Gate (module, action): undefined when
\* the prop is not passed.
Undefined == "undefined"

\* role: 'superadmin' | 'manager' | 'user'
Roles == {"superadmin", "manager", "user"}

\* Module names that occur as keys of a permissions object, and one more
\* name that is never a key (an unknown module).
Modules == {"products", "users"}
ModuleArgs == Modules \cup {"logs"}

\* Actions that occur in an entry's actions array, and one that never does.
Actions == {"read", "manage"}
ActionArgs == Actions \cup {"delete"}

\* permissions[module] = { allowed, actions }
Entry == [allowed : BOOLEAN, actions : SUBSET Actions]

\* The largest number of modules a permissions object of the model lists.
MaxEntries == 1

\* A permissions object: a map from some of the module names to entries.
PermissionTables ==
    UNION {[S -> Entry] : S \in {T \in SUBSET Modules : Cardinality(T) <= MaxEntries}}

\* {} : the permissions object without any key.
EmptyTable == [m \in {} |-> [allowed |-> FALSE, actions |-> {}]]

\* The user data handed to initialize: a role and an optional permissions
\* object (id, name and email play no part in any decision).
UserDatas == [role : Roles, permissions : {Null} \cup {Some(t) : t \in PermissionTables}]

\* useState([]) of TaskManagementPage: no task yet.
NoTasks == [t \in {} |-> "pending"]

(* ------------------------------------------------------------------ *)
(* State                                                               *)
(* ------------------------------------------------------------------ *)

VARIABLES
    pm_user,         \* permissionManager.user
    pm_permissions,  \* permissionManager.permissions
    last,            \* the evaluator / Gate call made last, since the last other step
    prev,            \* history: what set the Identity last, and the modules granted before it
    user,            \* App: const [user, setUser] = useState(null)
    isLoading,       \* App: const [isLoading, setIsLoading] = useState(true)
    token,           \* localStorage 'token' (the account it was issued to)
    lsUser,          \* localStorage 'user'
    pathname,        \* window.location.pathname
    initPc,          \* position of initializeApp: "mounted", "awaitMe", "done"
    logoutPc,        \* position of handleLogout: "idle", "await"
    inflight,        \* a view's API request is awaiting its response
    navPending,      \* window.location.href was assigned, document not yet replaced
    session,         \* history: what last happened to the session
    authFailure,     \* history: a non-login call got 401/403 since the last login
    currentUser,     \* POManagementPage: const [currentUser, setCurrentUser] = useState(null)
    orders,          \* POManagementPage: const [orders, setOrders] = useState([])
    tasks,           \* TaskManagementPage: const [tasks, setTasks] = useState([])
    calls            \* TaskManagementPage: the updateTaskStatus calls made, each with the tasks it closed over

evalVars == <<pm_user, pm_permissions>>
sessionVars == <<user, isLoading, token, lsUser, pathname, initPc, logoutPc,
                 inflight, navPending, session, authFailure>>
pageVars == <<orders, tasks, calls>>
appVars == <<user, isLoading, token, lsUser, pathname, initPc, logoutPc,
             inflight, navPending, session, authFailure, currentUser,
             orders, tasks, calls>>
vars == <<pm_user, pm_permissions, last, prev, user, isLoading, token, lsUser,
          pathname, initPc, logoutPc, inflight, navPending, session, authFailure,
          currentUser, orders, tasks, calls>>

(* ------------------------------------------------------------------ *)
(* PermissionManager                                                   *)
(* ------------------------------------------------------------------ *)

\* this.permissions?.[module] : undefined when permissions is null or
\* has no such key.
PermissionEntry(module) ==
    IF pm_permissions.tag = "some" /\ module \in DOMAIN pm_permissions.val
    THEN Some(pm_permissions.val[module])
    ELSE Null

InitialPermissions_keepOld(userData) ==
    IF userData.permissions.tag = "some"
    THEN Some(userData.permissions.val)
    ELSE IF pm_permissions.tag = "some" THEN pm_permissions ELSE Some(EmptyTable)

\* userData.permissions || {}
InitialPermissions(userData) ==
    IF userData.permissions.tag = "some"
    THEN Some(userData.permissions.val)
    ELSE Some(EmptyTable)

hasModuleAccess_notDenied(module) ==
    LET e == PermissionEntry(module)
    IN  ~(e.tag = "some" /\ e.val.allowed = FALSE)

hasModuleAccess_anyEntry(module) ==
    PermissionEntry(module).tag = "some"

\* this.permissions?.[module]?.allowed === true
hasModuleAccess(module) ==
    LET e == PermissionEntry(module)
    IN  e.tag = "some" /\ e.val.allowed = TRUE

canPerformAction_manageAll(module, action) ==
    LET e == PermissionEntry(module)
    IN  e.tag = "some" /\ (action \in e.val.actions \/ "manage" \in e.val.actions)

\* this.permissions?.[module]?.actions?.includes(action) === true
canPerformAction(module, action) ==
    LET e == PermissionEntry(module)
    IN  e.tag = "some" /\ action \in e.val.actions

\* Object.entries(this.permissions).filter(data.allowed).map(module):
\* Object.entries(null) throws a TypeError.  The result is kept as the set
\* of module names (the order of the array is the key order of the object).
Threw == [threw |-> TRUE]
Returned(v) == [threw |-> FALSE, val |-> v]

getAccessibleModules ==
    IF pm_permissions.tag = "null"
    THEN Threw
    ELSE Returned({m \in DOMAIN pm_permissions.val : pm_permissions.val[m].allowed})

\* this.permissions?.[module]?.actions || []
getModuleActions(module) ==
    LET e == PermissionEntry(module)
    IN  IF e.tag = "some" THEN e.val.actions ELSE {}

\* this.user?.role === 'super_admin'
isSuperAdmin ==
    pm_user.tag = "some" /\ pm_user.val.role = "super_admin"

\* this.user?.role === 'manager'
isManager ==
    pm_user.tag = "some" /\ pm_user.val.role = "manager"

(* ------------------------------------------------------------------ *)
(* PermissionGate                                                      *)
(* ------------------------------------------------------------------ *)

GateOptions ==
    [module : {Undefined} \cup ModuleArgs,
     action : {Undefined} \cup ActionArgs,
     requireSuperAdmin : BOOLEAN,
     requireManager : BOOLEAN]

PermissionGate_eitherMissing(o) ==
    IF o.requireSuperAdmin /\ ~isSuperAdmin THEN "fallback"
    ELSE IF o.requireManager /\ ~isManager THEN "fallback"
    ELSE IF o.module = Undefined \/ o.action = Undefined THEN "children"
    ELSE IF o.module # Undefined /\ ~hasModuleAccess(o.module) THEN "fallback"
    ELSE IF o.action # Undefined /\ ~canPerformAction(o.module, o.action) THEN "fallback"
    ELSE "children"

PermissionGate_moduleOnly(o) ==
    IF o.requireSuperAdmin /\ ~isSuperAdmin THEN "fallback"
    ELSE IF o.requireManager /\ ~isManager THEN "fallback"
    ELSE IF o.module = Undefined /\ o.action = Undefined THEN "children"
    ELSE IF o.module # Undefined /\ ~hasModuleAccess(o.module) THEN "fallback"
    ELSE "children"

PermissionGate_actionNeedsModule(o) ==
    IF o.requireSuperAdmin /\ ~isSuperAdmin THEN "fallback"
    ELSE IF o.requireManager /\ ~isManager THEN "fallback"
    ELSE IF o.module = Undefined /\ o.action = Undefined THEN "children"
    ELSE IF o.module # Undefined /\ ~hasModuleAccess(o.module) THEN "fallback"
    ELSE IF o.module # Undefined /\ o.action # Undefined
            /\ ~canPerformAction(o.module, o.action) THEN "fallback"
    ELSE "children"

PermissionGate(o) ==
    IF o.requireSuperAdmin /\ ~isSuperAdmin THEN "fallback"
    ELSE IF o.requireManager /\ ~isManager THEN "fallback"
    ELSE IF o.module = Undefined /\ o.action = Undefined THEN "children"
    ELSE IF o.module # Undefined /\ ~hasModuleAccess(o.module) THEN "fallback"
    ELSE IF o.action # Undefined /\ ~canPerformAction(o.module, o.action) THEN "fallback"
    ELSE "children"

GateCalls_eager(o) ==
    (IF o.requireSuperAdmin THEN <<"isSuperAdmin">> ELSE <<>>)
    \o (IF o.requireManager THEN <<"isManager">> ELSE <<>>)
    \o <<"hasModuleAccess", "canPerformAction">>

\* The evaluator methods one evaluation of the Gate invokes, in order:
\* && and the early returns leave the later ones uncalled.
GateCalls(o) ==
    IF o.requireSuperAdmin /\ ~isSuperAdmin THEN <<"isSuperAdmin">>
    ELSE (IF o.requireSuperAdmin THEN <<"isSuperAdmin">> ELSE <<>>) \o
      (IF o.requireManager /\ ~isManager THEN <<"isManager">>
       ELSE (IF o.requireManager THEN <<"isManager">> ELSE <<>>) \o
         (IF o.module = Undefined /\ o.action = Undefined THEN <<>>
          ELSE IF o.module # Undefined /\ ~hasModuleAccess(o.module)
               THEN <<"hasModuleAccess">>
          ELSE (IF o.module # Undefined THEN <<"hasModuleAccess">> ELSE <<>>) \o
               (IF o.action # Undefined THEN <<"canPerformAction">> ELSE <<>>)))

(* ------------------------------------------------------------------ *)
(* Operations of the evaluator                                         *)
(* ------------------------------------------------------------------ *)

NoCall == [op |-> "none"]

\* History kept with initialize and clear: which of the two ran last, and
\* the modules hasModuleAccess granted just before it ran.
NoPrev == [by |-> "none", granted |-> {}]
Before(by) == [by |-> by, granted |-> {m \in Modules : hasModuleAccess(m)}]

\* initialize(userData) { this.user = userData; this.permissions = ... }
initialize(userData) ==
    /\ pm_user' = Some(userData)
    /\ pm_permissions' = InitialPermissions(userData)

\* clear() { this.permissions = null; this.user = null; }
clear_permissionsOnly ==
    /\ pm_permissions' = Null
    /\ pm_user' = pm_user

clear ==
    /\ pm_permissions' = Null
    /\ pm_user' = Null

Initialize(userData) ==
    /\ initialize(userData)
    /\ prev' = Before("initialize")
    /\ last' = [op |-> "initialize"]
    /\ UNCHANGED appVars

Clear ==
    /\ clear
    /\ prev' = Before("clear")
    /\ last' = [op |-> "clear"]
    /\ UNCHANGED appVars

CallHasModuleAccess(module) ==
    /\ last' = [op |-> "hasModuleAccess", module |-> module,
                res |-> hasModuleAccess(module)]
    /\ UNCHANGED <<evalVars, prev, appVars>>

CallCanPerformAction(module, action) ==
    /\ last' = [op |-> "canPerformAction", module |-> module, action |-> action,
                res |-> canPerformAction(module, action)]
    /\ UNCHANGED <<evalVars, prev, appVars>>

CallGetAccessibleModules_normalising ==
    /\ last' = [op |-> "getAccessibleModules", res |-> getAccessibleModules]
    /\ pm_permissions' = IF pm_permissions.tag = "null" THEN Some(EmptyTable)
                          ELSE pm_permissions
    /\ UNCHANGED <<pm_user, prev, appVars>>

CallGetAccessibleModules ==
    /\ last' = [op |-> "getAccessibleModules", res |-> getAccessibleModules]
    /\ UNCHANGED <<evalVars, prev, appVars>>

CallGetModuleActions(module) ==
    /\ last' = [op |-> "getModuleActions", module |-> module,
                res |-> getModuleActions(module)]
    /\ UNCHANGED <<evalVars, prev, appVars>>

CallIsSuperAdmin ==
    /\ last' = [op |-> "isSuperAdmin", res |-> isSuperAdmin]
    /\ UNCHANGED <<evalVars, prev, appVars>>

CallIsManager ==
    /\ last' = [op |-> "isManager", res |-> isManager]
    /\ UNCHANGED <<evalVars, prev, appVars>>

RenderGate(o) ==
    /\ last' = [op |-> "PermissionGate", options |-> o, res |-> PermissionGate(o),
                calls |-> GateCalls(o)]
    /\ UNCHANGED <<evalVars, prev, appVars>>

\* new PermissionManager(), with the application parked on its login page.
EvalInit ==
    /\ pm_permissions = Null
    /\ pm_user = Null
    /\ last = NoCall
    /\ prev = NoPrev
    /\ user = Null
    /\ isLoading = FALSE
    /\ token = Null
    /\ lsUser = Null
    /\ pathname = "/login"
    /\ initPc = "done"
    /\ logoutPc = "idle"
    /\ inflight = FALSE
    /\ navPending = Null
    /\ session = "none"
    /\ authFailure = FALSE
    /\ currentUser = Null
    /\ orders = <<>>
    /\ tasks = NoTasks
    /\ calls = {}

EvalNext ==
    \/ \E u \in UserDatas : Initialize(u)
    \/ Clear
    \/ \E m \in ModuleArgs : CallHasModuleAccess(m)
    \/ \E m \in ModuleArgs, a \in ActionArgs : CallCanPerformAction(m, a)
    \/ CallGetAccessibleModules
    \/ \E m \in ModuleArgs : CallGetModuleActions(m)
    \/ CallIsSuperAdmin
    \/ CallIsManager
    \/ \E o \in GateOptions : RenderGate(o)

SpecEval == EvalInit /\ [][EvalNext]_vars

(* ------------------------------------------------------------------ *)
(* Route authorization table and router                                *)
(* ------------------------------------------------------------------ *)

AllRoles == {"superadmin", "manager", "user"}
AdminRoles == {"superadmin", "manager"}

\* const navigation = [ { name, href, icon, roles }, ... ]
navigation ==
    << [name |-> "Dashboard", href |-> "/",          roles |-> AllRoles],
       [name |-> "Users",     href |-> "/users",     roles |-> AdminRoles],
       [name |-> "Products",  href |-> "/products",  roles |-> AdminRoles],
       [name |-> "Customers", href |-> "/customers", roles |-> AdminRoles],
       [name |-> "Orders",    href |-> "/orders",    roles |-> AdminRoles],
       [name |-> "Tasks",     href |-> "/tasks",     roles |-> AllRoles],
       [name |-> "Roles",     href |-> "/roles",     roles |-> {"superadmin"}],
       [name |-> "Profile",   href |-> "/profile",   roles |-> AllRoles],
       [name |-> "Logs",      href |-> "/logs",      roles |-> AllRoles] >>

Reverse(seq) == [i \in 1..Len(seq) |-> seq[Len(seq) + 1 - i]]

filteredNavigation_reversed(role) ==
    Reverse(SelectSeq(navigation, LAMBDA item : role \in item.roles))

\* navigation.filter(item => item.roles.includes(user.role))
filteredNavigation(role) ==
    SelectSeq(navigation, LAMBDA item : role \in item.roles)

\* The paths a browser can be pointed at: the declared routes and one path
\* that only the wildcard route matches.
Paths ==
    {"/login", "/", "/dashboard", "/users", "/products", "/customers",
     "/orders", "/tasks", "/roles", "/profile", "/logs", "/nowhere"}

NavigateTo(p) == [kind |-> "navigate", to |-> p]
LoginPage == [kind |-> "login"]
InLayout(view) == [kind |-> "layout", view |-> view]

Protected_alwaysLogin(u, view) == NavigateTo("/login")

Protected_inlineLogin(u, view) ==
    IF u.tag = "some" THEN InLayout(view) ELSE LoginPage

\* user ? <Layout><View/></Layout> : <Navigate to="/login" replace />
Protected(u, view) ==
    IF u.tag = "some" THEN InLayout(view) ELSE NavigateTo("/login")

RouteElement_loginToRoot(path, u) ==
    CASE path = "/login"     -> IF u.tag = "some" THEN NavigateTo("/") ELSE LoginPage
      [] path = "/"          -> IF u.tag = "some" THEN NavigateTo("/dashboard") ELSE NavigateTo("/login")
      [] path = "/dashboard" -> Protected(u, "Dashboard")
      [] path = "/users"     -> Protected(u, "UserManagementPage")
      [] path = "/products"  -> Protected(u, "ProductManagementPage")
      [] path = "/customers" -> Protected(u, "CustomerManagementPage")
      [] path = "/orders"    -> Protected(u, "POManagementPage")
      [] path = "/tasks"     -> Protected(u, "TaskManagementPage")
      [] path = "/roles"     -> IF u.tag = "some" /\ u.val.role = "superadmin"
                                THEN InLayout("RoleManagementPage")
                                ELSE NavigateTo("/login")
      [] path = "/profile"   -> Protected(u, "UserProfilePage")
      [] path = "/logs"      -> Protected(u, "LogViewerPage")
      [] OTHER               -> NavigateTo("/dashboard")

\* The element <Routes> selects for a path, given the user state.
RouteElement(path, u) ==
    CASE path = "/login"     -> IF u.tag = "some" THEN NavigateTo("/dashboard") ELSE LoginPage
      [] path = "/"          -> IF u.tag = "some" THEN NavigateTo("/dashboard") ELSE NavigateTo("/login")
      [] path = "/dashboard" -> Protected(u, "Dashboard")
      [] path = "/users"     -> Protected(u, "UserManagementPage")
      [] path = "/products"  -> Protected(u, "ProductManagementPage")
      [] path = "/customers" -> Protected(u, "CustomerManagementPage")
      [] path = "/orders"    -> Protected(u, "POManagementPage")
      [] path = "/tasks"     -> Protected(u, "TaskManagementPage")
      [] path = "/roles"     -> IF u.tag = "some" /\ u.val.role = "superadmin"
                                THEN InLayout("RoleManagementPage")
                                ELSE NavigateTo("/login")
      [] path = "/profile"   -> Protected(u, "UserProfilePage")
      [] path = "/logs"      -> Protected(u, "LogViewerPage")
      [] OTHER               -> NavigateTo("/dashboard")

\* The path the router rests on when it starts at path and follows up to
\* n <Navigate> elements.
RECURSIVE Follow(_, _, _)
Follow(path, u, n) ==
    LET e == RouteElement(path, u)
    IN  IF e.kind = "navigate" /\ n > 0 THEN Follow(e.to, u, n - 1) ELSE path

\* What App returns: the spinner while loading, the routed element after.
Rendered ==
    IF isLoading THEN [kind |-> "spinner"] ELSE RouteElement(pathname, user)

(* ------------------------------------------------------------------ *)
(* The application                                                     *)
(* ------------------------------------------------------------------ *)

\* The accounts of the backend: what /login and /api/users/me can return.
Accounts ==
    { [role |-> "superadmin", permissions |-> Null],
      [role |-> "manager",
       permissions |-> Some([m \in {"products"} |->
                               [allowed |-> TRUE, actions |-> {"read"}]])],
      [role |-> "user",
       permissions |-> Some([m \in {"products"} |->
                               [allowed |-> FALSE, actions |-> {"read"}]])] }

\* JSON.parse(localStorage.getItem('user') || '{}'): the stored user, or
\* the object without any field.
EmptyObject == [tag |-> "empty"]
ReadUser(ls) == IF ls.tag = "some" THEN Some(ls.val) ELSE EmptyObject

\* currentUser?.role
RoleOf(cu) == IF cu.tag = "some" THEN cu.val.role ELSE Undefined

\* The router shows POManagementPage.
POMounted == Rendered = InLayout("POManagementPage")

\* The mount effect of POManagementPage, with a step that may mount or
\* unmount it: setCurrentUser(JSON.parse(localStorage.getItem('user') ||
\* '{}')) when the page mounts, reading the stored user ls; the state is
\* kept while the page stays mounted and is gone when it unmounts.
MountEffects(ls) ==
    currentUser' = IF POMounted'
                   THEN (IF POMounted THEN currentUser ELSE ReadUser(ls))
                   ELSE Null

AuthStatuses == {401, 403}
Statuses == {200, 401, 403, 500}

\* The document is (re)loaded at path p: every module is evaluated afresh
\* (new PermissionManager(), useState(null), useState(true)); localStorage
\* survives.
LoadPage(p) ==
    /\ pathname' = p
    /\ pm_user' = Null
    /\ pm_permissions' = Null
    /\ last' = NoCall
    /\ prev' = NoPrev
    /\ user' = Null
    /\ isLoading' = TRUE
    /\ initPc' = "mounted"
    /\ logoutPc' = "idle"
    /\ inflight' = FALSE
    /\ navPending' = Null
    /\ UNCHANGED <<token, lsUser, session, authFailure>>
    /\ currentUser' = Null
    /\ UNCHANGED pageVars

\* The user enters a URL or refreshes the page.
BrowserLoad(p) ==
    /\ p \in Paths
    /\ LoadPage(p)

\* An assignment to window.location.href takes effect.
HardNavigate ==
    /\ navPending.tag = "some"
    /\ LoadPage(navPending.val)

\* apiRequest on a 401/403 of a call other than /login:
\* localStorage.removeItem('token'); window.location.href = '/login'; throw
apiRequestAuthFailure ==
    /\ navPending' = Some("/login")
    /\ authFailure' = TRUE

InitializeApp_noTokenWaits ==
    /\ initPc = "mounted"
    /\ initPc' = IF token.tag = "null" THEN "done" ELSE "awaitMe"
    /\ last' = NoCall
    /\ UNCHANGED <<evalVars, prev, user, isLoading, token, lsUser, pathname,
                   logoutPc, inflight, navPending, session, authFailure>>
    /\ MountEffects(lsUser)
    /\ UNCHANGED pageVars

\* initializeApp up to its await: no token -> setIsLoading(false), return.
InitializeApp ==
    /\ initPc = "mounted"
    /\ IF token.tag = "null"
       THEN /\ isLoading' = FALSE
            /\ initPc' = "done"
       ELSE /\ initPc' = "awaitMe"
            /\ UNCHANGED isLoading
    /\ last' = NoCall
    /\ UNCHANGED <<evalVars, prev, user, token, lsUser, pathname, logoutPc,
                   inflight, navPending, session, authFailure>>
    /\ MountEffects(lsUser)
    /\ UNCHANGED pageVars

\* initializeApp after the await of apiRequest('/api/users/me'), and the
\* effect that follows a change of user (setUserForLogging).  account is
\* the record the backend holds now for the owner of the token: roles are
\* reassigned on the backend (AssignRoleModal), so it need not be the
\* record of the last login.  setUser and setIsLoading(false) are called
\* back to back after the await: when React batches them the routed page
\* mounts in the commit that sets user, and its mount effect (a child's)
\* runs before App's effect stores the user; when it does not, App's
\* effect has run before the page mounts.  Both orders are taken.
MeResponse(status, account) ==
    /\ initPc = "awaitMe"
    /\ initPc' = "done"
    /\ isLoading' = FALSE
    /\ IF status = 200
       THEN /\ user' = Some(account)
            /\ lsUser' = Some(account)
            /\ UNCHANGED <<token, navPending, session, authFailure>>
       ELSE /\ token' = Null
            /\ session' = "dropped"
            /\ IF status \in AuthStatuses
               THEN apiRequestAuthFailure
               ELSE UNCHANGED <<navPending, authFailure>>
            /\ UNCHANGED <<user, lsUser>>
    /\ last' = NoCall
    /\ UNCHANGED <<evalVars, prev, pathname, logoutPc, inflight>>
    /\ \E ls \in {lsUser, lsUser'} : MountEffects(ls)
    /\ UNCHANGED pageVars

\* What the backend can answer to POST /login: the HTTP status, the status
\* field of the JSON body, and whether data.token and data.user are there.
LoginResponses ==
    [http : Statuses, status : {"success", "error", "pending"},
     token : BOOLEAN, user : BOOLEAN]

\* apiRequest('/login') throws on !res.ok and on data.status === 'error'.
apiRequestThrows(r) == r.http # 200 \/ r.status = "error"

loginResolves_statusOnly(r) ==
    ~apiRequestThrows(r) /\ r.status = "success"

\* login() returns { token, user } when
\* result.status === 'success' && result.data?.token && result.data?.user,
\* and throws otherwise.
loginResolves(r) ==
    ~apiRequestThrows(r) /\ r.status = "success" /\ r.token /\ r.user

\* login(): localStorage.setItem('token', ...) on a success response.
loginStoresToken(account) == token' = Some(account)

\* onLogin={(userData) => { setUser(userData); setUserForLogging(userData) }}
onLogin(userData) ==
    /\ user' = Some(userData)
    /\ lsUser' = Some(userData)

\* LoginPage, on a successful login(): the Identity holder is populated
\* and onLogin is called with the user of the response.
LoginSuccess(account) ==
    /\ Rendered.kind = "login"
    /\ \E r \in LoginResponses :
          /\ loginResolves(r)
          /\ last' = [op |-> "login", response |-> r, res |-> "returned"]
    /\ loginStoresToken(account)
    /\ initialize(account)
    /\ prev' = Before("initialize")
    /\ onLogin(account)
    /\ session' = "loggedIn"
    /\ authFailure' = FALSE
    /\ UNCHANGED <<isLoading, pathname, initPc, logoutPc, inflight, navPending>>
    /\ MountEffects(lsUser')
    /\ UNCHANGED pageVars

\* LoginPage, on a rejected login(): apiRequest removes the token on a
\* 401/403 and throws; nothing is handed to onLogin.
LoginFailure(r) ==
    /\ Rendered.kind = "login"
    /\ ~loginResolves(r)
    /\ IF r.http \in AuthStatuses THEN token' = Null ELSE UNCHANGED token
    /\ last' = [op |-> "login", response |-> r, res |-> "threw"]
    /\ UNCHANGED <<evalVars, prev, user, isLoading, lsUser, pathname, initPc,
                   logoutPc, inflight, navPending, session, authFailure>>
    /\ UNCHANGED <<currentUser, pageVars>>

\* handleLogout up to its await of logout().
HandleLogout ==
    /\ Rendered.kind = "layout"
    /\ logoutPc = "idle"
    /\ logoutPc' = "await"
    /\ last' = NoCall
    /\ UNCHANGED <<evalVars, prev, user, isLoading, token, lsUser, pathname,
                   initPc, inflight, navPending, session, authFailure>>
    /\ UNCHANGED <<currentUser, pageVars>>

LogoutResponse_rejects(status) ==
    /\ logoutPc = "await"
    /\ logoutPc' = "idle"
    /\ token' = Null
    /\ IF status = 200
       THEN user' = Null /\ session' = "loggedOut"
       ELSE UNCHANGED <<user, session>>
    /\ IF status \in AuthStatuses
       THEN apiRequestAuthFailure
       ELSE UNCHANGED <<navPending, authFailure>>
    /\ last' = NoCall
    /\ UNCHANGED <<evalVars, prev, isLoading, lsUser, pathname, initPc, inflight>>
    /\ MountEffects(lsUser)
    /\ UNCHANGED pageVars

\* logout() settles (it catches every error and removes the token in its
\* finally), then handleLogout calls setUser(null).
LogoutResponse(status) ==
    /\ logoutPc = "await"
    /\ logoutPc' = "idle"
    /\ token' = Null
    /\ user' = Null
    /\ session' = "loggedOut"
    /\ IF status \in AuthStatuses
       THEN apiRequestAuthFailure
       ELSE UNCHANGED <<navPending, authFailure>>
    /\ last' = NoCall
    /\ UNCHANGED <<evalVars, prev, isLoading, lsUser, pathname, initPc, inflight>>
    /\ MountEffects(lsUser)
    /\ UNCHANGED pageVars

\* A mounted view issues an API request.
ViewRequest ==
    /\ Rendered.kind = "layout"
    /\ ~inflight
    /\ inflight' = TRUE
    /\ last' = NoCall
    /\ UNCHANGED <<evalVars, prev, user, isLoading, token, lsUser, pathname,
                   initPc, logoutPc, navPending, session, authFailure>>
    /\ UNCHANGED <<currentUser, pageVars>>

\* The response of a view's request arrives.
ViewResponse(status) ==
    /\ inflight
    /\ inflight' = FALSE
    /\ IF status \in AuthStatuses
       THEN /\ token' = Null
            /\ session' = "expired"
            /\ apiRequestAuthFailure
       ELSE UNCHANGED <<token, session, navPending, authFailure>>
    /\ last' = NoCall
    /\ UNCHANGED <<evalVars, prev, user, isLoading, lsUser, pathname, initPc, logoutPc>>
    /\ UNCHANGED <<currentUser, pageVars>>

\* <Navigate to=... replace /> is rendered: the router moves there.
FollowNavigate ==
    /\ Rendered.kind = "navigate"
    /\ pathname' = Rendered.to
    /\ last' = NoCall
    /\ UNCHANGED <<evalVars, prev, user, isLoading, token, lsUser, initPc,
                   logoutPc, inflight, navPending, session, authFailure>>
    /\ MountEffects(lsUser)
    /\ UNCHANGED pageVars

\* A sidebar <Link to={item.href}> of Layout is clicked.
ClickLink(i) ==
    /\ Rendered.kind = "layout"
    /\ i \in 1..Len(filteredNavigation(user.val.role))
    /\ pathname' = filteredNavigation(user.val.role)[i].href
    /\ last' = NoCall
    /\ UNCHANGED <<evalVars, prev, user, isLoading, token, lsUser, initPc,
                   logoutPc, inflight, navPending, session, authFailure>>
    /\ MountEffects(lsUser)
    /\ UNCHANGED pageVars

\* The browser opens the application for the first time.
Init ==
    /\ pm_permissions = Null
    /\ pm_user = Null
    /\ last = NoCall
    /\ prev = NoPrev
    /\ user = Null
    /\ isLoading = TRUE
    /\ token = Null
    /\ lsUser = Null
    /\ pathname \in Paths
    /\ initPc = "mounted"
    /\ logoutPc = "idle"
    /\ inflight = FALSE
    /\ navPending = Null
    /\ session = "none"
    /\ authFailure = FALSE
    /\ currentUser = Null
    /\ orders = <<>>
    /\ tasks = NoTasks
    /\ calls = {}

Next ==
    \/ \E p \in Paths : BrowserLoad(p)
    \/ HardNavigate
    \/ InitializeApp
    \/ \E st \in Statuses, a \in Accounts : MeResponse(st, a)
    \/ \E a \in Accounts : LoginSuccess(a)
    \/ \E r \in LoginResponses : LoginFailure(r)
    \/ HandleLogout
    \/ \E st \in Statuses : LogoutResponse(st)
    \/ ViewRequest
    \/ \E st \in Statuses : ViewResponse(st)
    \/ FollowNavigate
    \/ \E i \in 1..Len(navigation) : ClickLink(i)
    \/ \E m \in ModuleArgs : CallHasModuleAccess(m)
    \/ \E m \in ModuleArgs, a \in ActionArgs : CallCanPerformAction(m, a)
    \/ CallGetAccessibleModules
    \/ CallIsSuperAdmin
    \/ CallIsManager
    \/ \E o \in GateOptions : RenderGate(o)

Spec == Init /\ [][Next]_vars

\* One document, from its load until it is replaced: the browser opens the
\* application with whatever an earlier session left in localStorage; a
\* reload, by the user or by an assigned window.location.href, ends the
\* document and starts another one from LiveInit.
LiveInit ==
    /\ pm_permissions = Null
    /\ pm_user = Null
    /\ last = NoCall
    /\ prev = NoPrev
    /\ user = Null
    /\ isLoading = TRUE
    /\ token \in {Null} \cup {Some(a) : a \in Accounts}
    /\ lsUser = token
    /\ pathname \in Paths
    /\ initPc = "mounted"
    /\ logoutPc = "idle"
    /\ inflight = FALSE
    /\ navPending = Null
    /\ session = IF token.tag = "some" THEN "loggedIn" ELSE "none"
    /\ authFailure = FALSE
    /\ currentUser = Null
    /\ orders = <<>>
    /\ tasks = NoTasks
    /\ calls = {}

LiveNext ==
    \/ InitializeApp
    \/ \E st \in Statuses, a \in Accounts : MeResponse(st, a)
    \/ \E a \in Accounts : LoginSuccess(a)
    \/ \E r \in LoginResponses : LoginFailure(r)
    \/ HandleLogout
    \/ \E st \in Statuses : LogoutResponse(st)
    \/ ViewRequest
    \/ \E st \in Statuses : ViewResponse(st)
    \/ FollowNavigate
    \/ \E i \in 1..Len(navigation) : ClickLink(i)

\* The effect that calls initializeApp runs once the component has
\* mounted, and a request that was sent is answered or fails: fetch
\* settles.
SpecLive ==
    /\ LiveInit
    /\ [][LiveNext]_vars
    /\ WF_vars(InitializeApp)
    /\ WF_vars(\E st \in Statuses, a \in Accounts : MeResponse(st, a))
    /\ WF_vars(\E st \in Statuses : LogoutResponse(st))

(* ------------------------------------------------------------------ *)
(* POManagementPage                                                    *)
(* ------------------------------------------------------------------ *)

\* status: 'pending' | 'processing' | 'shipping' | 'delivered' | 'cancelled'
OrderStatuses == {"pending", "processing", "shipping", "delivered", "cancelled"}

\* A purchase order as far as the actions column reads it; invoiceUrl is
\* whether the field holds a URL.
Orders == [status : OrderStatuses, doCreated : BOOLEAN, invoiceUrl : BOOLEAN]

\* The largest number of orders /api/purchase-orders returns in the model.
MaxOrders == 1

OrderLists == UNION {[1..n -> Orders] : n \in 0..MaxOrders}

\* What currentUser can hold once the mount effect has run.
CurrentUsers == {Some(a) : a \in Accounts} \cup {EmptyObject}

\* order.status === 'cancelled' || order.status === 'delivered'
isInactive(order) == order.status = "cancelled" \/ order.status = "delivered"

\* The conditions of the seven buttons of the actions column.
ApproveOffered(cu, order) ==
    RoleOf(cu) = "manager" /\ order.status = "pending" /\ ~isInactive(order)

CreateTaskOffered(cu, order) ==
    RoleOf(cu) = "manager" /\ order.status = "processing" /\ ~isInactive(order)

CreateDOOffered(cu, order) ==
    /\ RoleOf(cu) = "user"
    /\ order.status = "processing"
    /\ ~order.doCreated
    /\ ~isInactive(order)

MarkAsShippingOffered_withoutDO(cu, order) ==
    RoleOf(cu) = "user" /\ order.status = "processing" /\ ~isInactive(order)

MarkAsShippingOffered(cu, order) ==
    /\ RoleOf(cu) = "user"
    /\ order.status = "processing"
    /\ order.doCreated
    /\ ~isInactive(order)

MarkAsDeliveredOffered(cu, order) ==
    RoleOf(cu) = "user" /\ order.status = "shipping" /\ ~isInactive(order)

GenerateInvoiceOffered_regenerate(cu, order) ==
    /\ RoleOf(cu) = "manager"
    /\ order.status = "delivered"
    /\ order.status # "cancelled"

GenerateInvoiceOffered(cu, order) ==
    /\ RoleOf(cu) = "manager"
    /\ order.status = "delivered"
    /\ ~order.invoiceUrl
    /\ order.status # "cancelled"

CancelOffered(cu, order) ==
    /\ RoleOf(cu) = "manager"
    /\ (order.status = "pending" \/ order.status = "processing")
    /\ ~isInactive(order)

Buttons ==
    {"Approve", "Create Task", "Create DO", "Mark as Shipping",
     "Mark as Delivered", "Generate Invoice", "Cancel"}

\* The buttons the actions column renders for an order.
Offered(cu, order) ==
    {b \in Buttons :
        CASE b = "Approve"           -> ApproveOffered(cu, order)
          [] b = "Create Task"       -> CreateTaskOffered(cu, order)
          [] b = "Create DO"         -> CreateDOOffered(cu, order)
          [] b = "Mark as Shipping"  -> MarkAsShippingOffered(cu, order)
          [] b = "Mark as Delivered" -> MarkAsDeliveredOffered(cu, order)
          [] b = "Generate Invoice"  -> GenerateInvoiceOffered(cu, order)
          [] b = "Cancel"            -> CancelOffered(cu, order)}

\* fetchOrders settles: setOrders(data) on success, a toast on failure.
\* It runs on mount and after every handler that succeeded.
FetchOrders(status, list) ==
    /\ POMounted
    /\ IF status = 200 THEN orders' = list ELSE UNCHANGED orders
    /\ last' = NoCall
    /\ UNCHANGED <<evalVars, prev, sessionVars, currentUser, tasks, calls>>

\* A button of the row of orders[i] is clicked: its handler sends its
\* request (the list is fetched again when that succeeds).
ClickButton(i, b) ==
    /\ POMounted
    /\ i \in 1..Len(orders)
    /\ b \in Offered(currentUser, orders[i])
    /\ last' = [op |-> "click", button |-> b, order |-> orders[i],
                role |-> RoleOf(currentUser)]
    /\ UNCHANGED <<evalVars, prev, sessionVars, currentUser, pageVars>>

\* POManagementPage has mounted for an authenticated user and its mount
\* effect has read localStorage 'user'.
POInit ==
    /\ pm_permissions = Null
    /\ pm_user = Null
    /\ last = NoCall
    /\ prev = NoPrev
    /\ user \in {Some(a) : a \in Accounts}
    /\ isLoading = FALSE
    /\ token = user
    /\ lsUser = user
    /\ pathname = "/orders"
    /\ initPc = "done"
    /\ logoutPc = "idle"
    /\ inflight = FALSE
    /\ navPending = Null
    /\ session = "loggedIn"
    /\ authFailure = FALSE
    /\ currentUser \in CurrentUsers
    /\ orders = <<>>
    /\ tasks = NoTasks
    /\ calls = {}

PONext ==
    \/ \E st \in {200, 500}, list \in OrderLists : FetchOrders(st, list)
    \/ \E i \in 1..MaxOrders, b \in Buttons : ClickButton(i, b)

SpecPO == POInit /\ [][PONext]_vars

(* ------------------------------------------------------------------ *)
(* TaskManagementPage                                                  *)
(* ------------------------------------------------------------------ *)

TaskIds == {"t1", "t2"}

\* status: 'pending' | 'in-progress' | 'completed'
TaskStatuses == {"pending", "in-progress", "completed"}

\* The router shows TaskManagementPage.
TasksMounted == Rendered = InLayout("TaskManagementPage")

\* updateTaskStatus(taskId, newStatus) up to its await.  The function is
\* the one created by the render that is on screen, so the tasks it will
\* use after the await are the tasks of that render.  during records the
\* tasks whose update was still awaited when this one started.  Each task
\* is updated at most once.
UpdateTaskStatus(taskId, newStatus) ==
    /\ TasksMounted
    /\ \A c \in calls : c.task # taskId
    /\ calls' = calls \cup
          {[task |-> taskId, status |-> newStatus, seen |-> tasks, pc |-> "await",
            during |-> {c.task : c \in {d \in calls : d.pc = "await"}}]}
    /\ UNCHANGED <<evalVars, last, prev, sessionVars, currentUser, orders, tasks>>

\* updateTaskStatus after its await:
\* setTasks(tasks.map(task => task.id === taskId ? {...task, status} : task))
\* on success, a toast on failure.
UpdateResponse(taskId, status) ==
    /\ \E c \in calls :
          /\ c.task = taskId
          /\ c.pc = "await"
          /\ IF status = 200
             THEN /\ tasks' = [t \in DOMAIN c.seen |->
                                 IF t = c.task THEN c.status ELSE c.seen[t]]
                  /\ calls' = (calls \ {c}) \cup {[c EXCEPT !.pc = "ok"]}
             ELSE /\ UNCHANGED tasks
                  /\ calls' = (calls \ {c}) \cup {[c EXCEPT !.pc = "failed"]}
    /\ UNCHANGED <<evalVars, last, prev, sessionVars, currentUser, orders>>

\* TaskManagementPage has mounted for an authenticated user and
\* fetchTasks has stored the tasks of the backend.
TasksInit ==
    /\ pm_permissions = Null
    /\ pm_user = Null
    /\ last = NoCall
    /\ prev = NoPrev
    /\ user \in {Some(a) : a \in Accounts}
    /\ isLoading = FALSE
    /\ token = user
    /\ lsUser = user
    /\ pathname = "/tasks"
    /\ initPc = "done"
    /\ logoutPc = "idle"
    /\ inflight = FALSE
    /\ navPending = Null
    /\ session = "loggedIn"
    /\ authFailure = FALSE
    /\ currentUser = Null
    /\ orders = <<>>
    /\ tasks \in [TaskIds -> TaskStatuses]
    /\ calls = {}

TasksNext ==
    \/ \E t \in TaskIds, st \in TaskStatuses : UpdateTaskStatus(t, st)
    \/ \E t \in TaskIds, st \in {200, 500} : UpdateResponse(t, st)

SpecTasks == TasksInit /\ [][TasksNext]_vars

(* ------------------------------------------------------------------ *)
(* Properties                                                          *)
(* ------------------------------------------------------------------ *)

\* The evaluator holds no Identity: never initialized, or after clear().
NoIdentity == pm_user.tag = "null"

\* There is no PermissionTable: permissions is null, or the evaluator was
\* initialized with user data that carries no permissions.
NoPermissionTable ==
    \/ pm_permissions.tag = "null"
    \/ pm_user.tag = "some" /\ pm_user.val.permissions.tag = "null"

\* C1: without a PermissionTable (never initialized, after clear(), or
\* initialized with user data without permissions) hasModuleAccess(m) and
\* canPerformAction(m, a) are false for every module m and action a, both
\* as the functions evaluate now and as the last call returned.
C1_FailClosed ==
    NoPermissionTable =>
        /\ \A m \in ModuleArgs : ~hasModuleAccess(m)
        /\ \A m \in ModuleArgs, a \in ActionArgs : ~canPerformAction(m, a)
        /\ last.op \in {"hasModuleAccess", "canPerformAction"} => last.res = FALSE

\* C1 witness: initialized with user data that has no permissions, and
\* canPerformAction has been called.
C1_Witness ==
    /\ pm_user.tag = "some"
    /\ pm_user.val.permissions.tag = "null"
    /\ last.op = "canPerformAction"

\* C2: with no Identity, hasModuleAccess, canPerformAction, isSuperAdmin
\* and isManager return false and getAccessibleModules returns the empty
\* sequence; none of them throws.
C2_NoThrowWithoutIdentity ==
    NoIdentity =>
        /\ last.op \in {"hasModuleAccess", "canPerformAction",
                        "isSuperAdmin", "isManager"} => last.res = FALSE
        /\ last.op = "getAccessibleModules" => last.res = Returned({})

\* C3: canPerformAction(m, a) is false whenever hasModuleAccess(m) is
\* false, also when the entry of m lists a but is not allowed.
C3_DependencyInvariant ==
    (last.op = "canPerformAction" /\ ~hasModuleAccess(last.module))
        => last.res = FALSE

\* C4: isSuperAdmin() is true exactly when the held role is 'superadmin'
\* and isManager() exactly when it is 'manager'.
C4_RoleTests ==
    /\ last.op = "isSuperAdmin" =>
          (last.res <=> (pm_user.tag = "some" /\ pm_user.val.role = "superadmin"))
    /\ last.op = "isManager" =>
          (last.res <=> (pm_user.tag = "some" /\ pm_user.val.role = "manager"))

\* C5: for a superadmin Identity with an empty PermissionTable, the Gate
\* with only requireSuperAdmin set renders its children.
C5_SuperAdminGate ==
    ( /\ last.op = "PermissionGate"
      /\ last.options = [module |-> Undefined, action |-> Undefined,
                         requireSuperAdmin |-> TRUE, requireManager |-> FALSE]
      /\ pm_user.tag = "some"
      /\ pm_user.val.role = "superadmin"
      /\ pm_permissions = Some(EmptyTable) )
    => last.res = "children"

\* At least one of module, action, requireSuperAdmin, requireManager is
\* supplied to the Gate.
Supplied(o) ==
    \/ o.module # Undefined
    \/ o.action # Undefined
    \/ o.requireSuperAdmin
    \/ o.requireManager

\* C6 as stated: with no Identity the Gate renders its fallback for every
\* combination of options, the empty combination included.
C6_AlwaysFallback ==
    (NoIdentity /\ last.op = "PermissionGate") => last.res = "fallback"

\* C6 as amended: with no Identity the Gate renders its fallback for every
\* combination in which at least one option is supplied, and its children
\* when none is.
C6_FallbackWhenSupplied ==
    /\ NoIdentity =>
          \A o \in GateOptions :
              PermissionGate(o) = IF Supplied(o) THEN "fallback" ELSE "children"
    /\ (NoIdentity /\ last.op = "PermissionGate") =>
          last.res = IF Supplied(last.options) THEN "fallback" ELSE "children"

\* C6 witness: with no Identity a Gate that names a module (and nothing
\* else) has been rendered, as its fallback.
C6_Witness ==
    /\ NoIdentity
    /\ last.op = "PermissionGate"
    /\ last.options.module # Undefined
    /\ last.options.action = Undefined
    /\ ~last.options.requireSuperAdmin
    /\ ~last.options.requireManager
    /\ last.res = "fallback"

\* C7: while the application holds an authenticated user, the evaluator
\* holds that user and the user's permissions.
C7_EvaluatorPopulated ==
    user.tag = "some" =>
        /\ pm_user = user
        /\ pm_permissions = InitialPermissions(user.val)

\* C8: a protected view is rendered at a path of the route table only
\* for a user whose role is in that entry's roles.
C8_RouteRoles ==
    Rendered.kind = "layout" =>
        \A i \in 1..Len(navigation) :
            navigation[i].href = pathname => user.val.role \in navigation[i].roles

\* C9: once a call other than login got a 401/403 and the redirect it
\* starts has happened, the token is gone, the application holds no user,
\* and every evaluator query and every Gate evaluation denies.
C9_AuthFailureClearsIdentity ==
    (authFailure /\ navPending.tag = "null") =>
        /\ token.tag = "null"
        /\ user.tag = "null"
        /\ last.op \in {"hasModuleAccess", "canPerformAction",
                        "isSuperAdmin", "isManager"} => last.res = FALSE
        /\ last.op = "getAccessibleModules" => last.res = Returned({})
        /\ last.op = "PermissionGate" => last.res = "fallback"

\* C10: after logout has completed the application's user is null, the
\* token is removed and the evaluator holds no user and no PermissionTable.
C10_LogoutDestroysIdentity ==
    (session = "loggedOut" /\ logoutPc = "idle") =>
        /\ user.tag = "null"
        /\ token.tag = "null"
        /\ pm_user.tag = "null"
        /\ pm_permissions.tag = "null"

\* The evaluator queries that return a boolean.
BooleanQueries == {"hasModuleAccess", "canPerformAction", "isSuperAdmin", "isManager"}

\* C11: a query issued after clear() and before the next initialize()
\* never returns true, whatever was granted before the clear.
C11_NoStaleGrant ==
    (prev.by = "clear" /\ last.op \in BooleanQueries) => last.res = FALSE

\* C11 witness: a module was granted, clear() ran, and hasModuleAccess has
\* been asked again for that module.
C11_Witness ==
    /\ prev.by = "clear"
    /\ last.op = "hasModuleAccess"
    /\ last.module \in prev.granted

\* The outcome the six-step order of the Gate prescribes: children exactly
\* when no role requirement fails and either nothing else is asked or
\* every module / action check that is asked passes.
SixStepOutcome(o) ==
    IF /\ o.requireSuperAdmin => isSuperAdmin
       /\ o.requireManager => isManager
       /\ \/ (o.module = Undefined /\ o.action = Undefined)
          \/ /\ o.module # Undefined => hasModuleAccess(o.module)
             /\ o.action # Undefined => canPerformAction(o.module, o.action)
    THEN "children"
    ELSE "fallback"

\* C12: the outcome of every Gate evaluation is the one the six-step
\* short-circuit order gives for the current Identity and the options.
C12_GateIsSixStepOrder ==
    /\ \A o \in GateOptions : PermissionGate(o) = SixStepOutcome(o)
    /\ last.op = "PermissionGate" => last.res = SixStepOutcome(last.options)

\* C12 witness: a manager whose products entry is allowed without
\* 'delete' had Gate({module:'products', action:'delete'}) rendered, as
\* the fallback.
C12_Witness ==
    /\ last.op = "PermissionGate"
    /\ last.options = [module |-> "products", action |-> "delete",
                       requireSuperAdmin |-> FALSE, requireManager |-> FALSE]
    /\ pm_user.tag = "some"
    /\ pm_user.val.role = "manager"
    /\ hasModuleAccess("products")
    /\ last.res = "fallback"

InSeq(x, seq) == \E i \in 1..Len(seq) : seq[i] = x

\* C13: a Gate evaluation with requireSuperAdmin set, for an Identity that
\* is not a super admin, yields the fallback and invokes neither
\* hasModuleAccess nor canPerformAction.
C13_SuperAdminFirst ==
    (last.op = "PermissionGate" /\ last.options.requireSuperAdmin /\ ~isSuperAdmin)
    => /\ last.res = "fallback"
       /\ ~InSeq("hasModuleAccess", last.calls)
       /\ ~InSeq("canPerformAction", last.calls)

\* C13 witness: such an evaluation happened with a module and an action
\* supplied, for a manager whose module check would have failed.
C13_Witness ==
    /\ last.op = "PermissionGate"
    /\ last.options.requireSuperAdmin
    /\ last.options.module # Undefined
    /\ last.options.action # Undefined
    /\ pm_user.tag = "some"
    /\ pm_user.val.role = "manager"
    /\ ~hasModuleAccess(last.options.module)

\* C14: hasModuleAccess(module) returns true exactly when the table has an
\* entry for the module whose allowed flag is true; an absent module is
\* answered like allowed: false.
C14_ModuleAccessIffAllowed ==
    last.op = "hasModuleAccess" =>
        (last.res <=> /\ pm_permissions.tag = "some"
                      /\ last.module \in DOMAIN pm_permissions.val
                      /\ pm_permissions.val[last.module].allowed = TRUE)

\* C14 witness: hasModuleAccess was asked for a module that the table
\* lists with allowed: false, while the table exists.
C14_Witness ==
    /\ last.op = "hasModuleAccess"
    /\ pm_permissions.tag = "some"
    /\ last.module \in DOMAIN pm_permissions.val
    /\ pm_permissions.val[last.module].allowed = FALSE
    /\ last.res = FALSE

\* C15: for a module whose entry is allowed, canPerformAction returns true
\* exactly when the action is listed in the entry's actions; 'manage'
\* grants nothing but itself.
C15_ActionIffListed ==
    ( /\ last.op = "canPerformAction"
      /\ pm_permissions.tag = "some"
      /\ last.module \in DOMAIN pm_permissions.val
      /\ pm_permissions.val[last.module].allowed = TRUE )
    => (last.res <=> last.action \in pm_permissions.val[last.module].actions)

\* C15 witness: an allowed entry lists only 'manage', and canPerformAction
\* was asked for 'read' on it and denied.
C15_Witness ==
    /\ last.op = "canPerformAction"
    /\ pm_permissions.tag = "some"
    /\ last.module \in DOMAIN pm_permissions.val
    /\ pm_permissions.val[last.module].allowed = TRUE
    /\ pm_permissions.val[last.module].actions = {"manage"}
    /\ last.action = "read"
    /\ last.res = FALSE

\* The role of the authenticated user is not among the roles the route
\* table requires for the current path.
RoleNotRequired ==
    /\ user.tag = "some"
    /\ ~isLoading
    /\ \E i \in 1..Len(navigation) :
          navigation[i].href = pathname /\ user.val.role \notin navigation[i].roles

\* C16: an authenticated user on a route that does not list the user's
\* role never has the view mounted, and the router comes to rest on
\* /dashboard.
C16_DeniedRoleLandsOnDashboard ==
    RoleNotRequired =>
        /\ Rendered.kind # "layout"
        /\ Follow(pathname, user, 3) = "/dashboard"

\* The routes that render a view inside Layout.
ProtectedPaths ==
    {"/dashboard", "/users", "/products", "/customers", "/orders", "/tasks",
     "/roles", "/profile", "/logs"}

\* C17: with no authenticated user a protected route renders the redirect
\* to /login, and a view is only ever rendered for an authenticated user.
C17_UnauthenticatedRedirect ==
    /\ (user.tag = "null" /\ ~isLoading /\ pathname \in ProtectedPaths)
          => Rendered = NavigateTo("/login")
    /\ Rendered.kind = "layout" => user.tag = "some"

\* C17 witness: the user has logged out while on a protected route.
C17_Witness ==
    /\ session = "loggedOut"
    /\ user.tag = "null"
    /\ ~isLoading
    /\ pathname \in ProtectedPaths

\* The positions of the navigation entries whose roles contain role, and
\* the j-th of them in table order.
VisibleIndices(role) == {i \in 1..Len(navigation) : role \in navigation[i].roles}
NthVisible(role, j) ==
    CHOOSE i \in VisibleIndices(role) :
        Cardinality({k \in VisibleIndices(role) : k < i}) = j - 1

\* C18: the sidebar Layout shows is the navigation table restricted to the
\* entries that list the user's role, in table order, nothing added,
\* dropped or moved.
C18_SidebarIsOrderedFilter ==
    Rendered.kind = "layout" =>
        LET role == user.val.role
            shown == filteredNavigation(role)
        IN  /\ Len(shown) = Cardinality(VisibleIndices(role))
            /\ \A j \in 1..Len(shown) : shown[j] = navigation[NthVisible(role, j)]

\* C18 witness: Layout is rendered for role 'user', for whom some entries
\* are hidden.
C18_Witness ==
    /\ Rendered.kind = "layout"
    /\ user.val.role = "user"
    /\ Len(filteredNavigation("user")) < Len(navigation)

\* The calls that only ask: the evaluator queries and the Gate.
QueryOps ==
    BooleanQueries \cup {"getAccessibleModules", "getModuleActions", "PermissionGate"}

\* C19: a query or a Gate evaluation leaves the held user and the
\* PermissionTable as they were; they change only in initialize and clear.
C19_QueriesAreReadOnly ==
    [][ /\ last'.op \in QueryOps => UNCHANGED evalVars
        /\ evalVars' # evalVars => last'.op \in {"initialize", "clear"} ]_vars

\* C19 witness: getAccessibleModules was called on a populated evaluator.
C19_Witness ==
    /\ last.op = "getAccessibleModules"
    /\ pm_user.tag = "some"
    /\ pm_permissions.tag = "some"
    /\ DOMAIN pm_permissions.val # {}

\* C20: the PermissionTable held is exactly the one of the user data of
\* the last initialize (empty when that carries none), so hasModuleAccess
\* answers from it alone and grants nothing of an earlier Identity.
C20_InitializeReplaces ==
    pm_user.tag = "some" =>
        LET given == pm_user.val.permissions
        IN  /\ pm_permissions.tag = "some"
            /\ given.tag = "some" => pm_permissions.val = given.val
            /\ given.tag = "null" => DOMAIN pm_permissions.val = {}
            /\ last.op = "hasModuleAccess" =>
                  (last.res <=> /\ given.tag = "some"
                                /\ last.module \in DOMAIN given.val
                                /\ given.val[last.module].allowed)

\* C20 witness: initialize ran over an Identity that granted a module,
\* with user data that carries no permissions, and hasModuleAccess was
\* then asked for that module.
C20_Witness ==
    /\ prev.by = "initialize"
    /\ pm_user.tag = "some"
    /\ pm_user.val.permissions.tag = "null"
    /\ last.op = "hasModuleAccess"
    /\ last.module \in prev.granted
    /\ last.res = FALSE

\* The element the router rests on when it starts at path p with the
\* current user state and follows at most two redirects.
RestsOn(p) == RouteElement(Follow(p, user, 2), user)

\* C24: from every starting path, the wildcard one included, the chain
\* of redirects reaches a rendered component within two redirects: the
\* login page without a user, a view inside Layout with one.
C24_RedirectsTerminate ==
    ~isLoading =>
        \A p \in Paths :
            IF user.tag = "null"
            THEN RestsOn(p).kind = "login"
            ELSE RestsOn(p).kind = "layout"

\* C24 witness: a manager is on /roles, from where two redirects are
\* needed (/roles -> /login -> /dashboard).
C24_Witness ==
    /\ ~isLoading
    /\ user.tag = "some"
    /\ user.val.role = "manager"
    /\ pathname = "/roles"
    /\ Follow(pathname, user, 1) = "/login"
    /\ Follow(pathname, user, 2) = "/dashboard"

\* C25: every link the sidebar shows to the authenticated user leads,
\* after redirects, to a view inside Layout and not to the login page.
C25_SidebarLinksRender ==
    Rendered.kind = "layout" =>
        \A i \in 1..Len(filteredNavigation(user.val.role)) :
            RestsOn(filteredNavigation(user.val.role)[i].href).kind = "layout"

\* C25 witness: the sidebar is shown to a manager who has followed the
\* Orders link.
C25_Witness ==
    /\ Rendered.kind = "layout"
    /\ user.val.role = "manager"
    /\ pathname = "/orders"
    /\ \E i \in 1..Len(filteredNavigation("manager")) :
          filteredNavigation("manager")[i].href = pathname

\* C30: a Gate given an action but no module renders the fallback,
\* whatever Identity and PermissionTable the evaluator holds.
C30_ActionWithoutModule ==
    (last.op = "PermissionGate" /\ last.options.module = Undefined
                                /\ last.options.action # Undefined)
        => last.res = "fallback"

\* C30 witness: the Gate was rendered with only an action, no role
\* requirement, over a table that lists that action for an allowed module.
C30_Witness ==
    /\ last.op = "PermissionGate"
    /\ last.options.module = Undefined
    /\ last.options.action # Undefined
    /\ ~last.options.requireSuperAdmin
    /\ ~last.options.requireManager
    /\ \E m \in Modules : hasModuleAccess(m) /\ canPerformAction(m, last.options.action)

\* C21: login returns the user and stores the token exactly when the
\* /login response is HTTP-ok with status 'success', a token and a user;
\* in every other case it throws, no token is stored and the application
\* holds no user.
C21_IdentityOnlyOnSuccess ==
    last.op = "login" =>
        /\ last.res = "returned" <=>
              /\ last.response.http = 200
              /\ last.response.status = "success"
              /\ last.response.token
              /\ last.response.user
        /\ last.res = "returned" => token.tag = "some" /\ user.tag = "some"
        /\ last.res = "threw" => token.tag = "null" /\ user.tag = "null"

\* C21 witness: /login answered 200 'success' without a token; login threw.
C21_Witness ==
    /\ last.op = "login"
    /\ last.res = "threw"
    /\ last.response.http = 200
    /\ last.response.status = "success"
    /\ ~last.response.token
    /\ token.tag = "null"

\* C29: while POManagementPage is shown, the role it read from
\* localStorage 'user' at mount is the role of the user App holds.
C29_PageRoleIsAppRole ==
    (POMounted /\ user.tag = "some") => RoleOf(currentUser) = user.val.role

\* C22: whatever the /logout request answers, the step that ends
\* handleLogout leaves no token and no user; and once logout has been
\* triggered the application eventually holds neither.
C22_LogoutAlwaysEnds ==
    /\ [][(logoutPc = "await" /\ logoutPc' = "idle")
            => (token'.tag = "null" /\ user'.tag = "null")]_vars
    /\ (logoutPc = "await") ~> (user.tag = "null" /\ token.tag = "null")

\* C22 witness: the /logout request was refused with 401/403 and the
\* application still ended without user and token.
C22_Witness ==
    /\ session = "loggedOut"
    /\ authFailure
    /\ logoutPc = "idle"
    /\ user.tag = "null"
    /\ token.tag = "null"

\* C23: while isLoading nothing but the spinner is rendered; the step
\* that ends the /api/users/me request clears isLoading and leaves either
\* a user with the token kept or no user with the token removed; and
\* isLoading always becomes false.
C23_StartupLeavesLoading ==
    /\ [](isLoading => Rendered.kind = "spinner")
    /\ [][(initPc = "awaitMe" /\ initPc' = "done")
            => /\ ~isLoading'
               /\ \/ user'.tag = "some" /\ token' = token
                  \/ user'.tag = "null" /\ token'.tag = "null"]_vars
    /\ isLoading ~> ~isLoading

\* C23 witness: /api/users/me failed; loading is over, the token is gone
\* and there is no user.
C23_Witness ==
    /\ session = "dropped"
    /\ initPc = "done"
    /\ ~isLoading
    /\ user.tag = "null"
    /\ token.tag = "null"

\* C26: a cancelled order offers no button; a delivered order offers at
\* most Generate Invoice, and that exactly to a manager while the order
\* has no invoice; no other button is ever clicked on such an order.
C26_InactiveOrders ==
    /\ \A i \in 1..Len(orders) :
          LET offered == Offered(currentUser, orders[i])
          IN  /\ orders[i].status = "cancelled" => offered = {}
              /\ orders[i].status = "delivered" =>
                    /\ offered \subseteq {"Generate Invoice"}
                    /\ "Generate Invoice" \in offered <=>
                          (RoleOf(currentUser) = "manager" /\ ~orders[i].invoiceUrl)
    /\ (last.op = "click" /\ last.order.status \in {"cancelled", "delivered"})
          => /\ last.button = "Generate Invoice"
             /\ last.order.status = "delivered"
             /\ last.role = "manager"
             /\ ~last.order.invoiceUrl

\* C26 witness: a manager clicked Generate Invoice on a delivered order
\* that has no invoice yet.
C26_Witness ==
    /\ last.op = "click"
    /\ last.button = "Generate Invoice"
    /\ last.order.status = "delivered"
    /\ ~last.order.invoiceUrl
    /\ RoleOf(currentUser) = "manager"

\* C27: Mark as Shipping is offered only for a processing order with its
\* delivery order created and Create DO only for one without, never both;
\* Mark as Delivered only for a shipping order; these three only to role
\* 'user', and Approve, Create Task, Generate Invoice and Cancel only to
\* role 'manager'.
C27_StepOrdering ==
    \A i \in 1..Len(orders) :
        LET o == orders[i]
            offered == Offered(currentUser, o)
        IN  /\ "Mark as Shipping" \in offered => (o.status = "processing" /\ o.doCreated)
            /\ "Create DO" \in offered => (o.status = "processing" /\ ~o.doCreated)
            /\ ~({"Mark as Shipping", "Create DO"} \subseteq offered)
            /\ "Mark as Delivered" \in offered => o.status = "shipping"
            /\ offered \cap {"Create DO", "Mark as Shipping", "Mark as Delivered"} # {}
                  => RoleOf(currentUser) = "user"
            /\ offered \cap {"Approve", "Create Task", "Generate Invoice", "Cancel"} # {}
                  => RoleOf(currentUser) = "manager"

\* C27 witness: role 'user' clicked Mark as Shipping on a processing
\* order whose delivery order exists.
C27_Witness ==
    /\ last.op = "click"
    /\ last.button = "Mark as Shipping"
    /\ last.order.status = "processing"
    /\ last.order.doCreated
    /\ last.role = "user"

\* C28: when the updates of two different tasks overlapped and both
\* succeeded, the task list shows the new status of both.
C28_NoLostUpdate ==
    \A c1, c2 \in calls :
        (c1.task # c2.task /\ c1.pc = "ok" /\ c2.pc = "ok" /\ c1.task \in c2.during)
            => (tasks[c1.task] = c1.status /\ tasks[c2.task] = c2.status)

====
